---- MODULE Spec2Model ----
(***************************************************************************)
(* Model of the Economy Information Hub (app.py): the SpareBank 1          *)
(* statement parser parse_pdf, the keyword classifier get_category and the *)
(* script body that merges the uploaded files into master_df.              *)
(*                                                                         *)
(* A Python str is modelled as a sequence of one-character strings, so     *)
(* that substring tests, regular expressions, replace() and float() are    *)
(* computed character by character.  Amounts are kept in whole oere        *)
(* (1/100 NOK): 349.00 is 34900.                                           *)
(***************************************************************************)
EXTENDS Integers, Sequences, FiniteSets, TLC

VARIABLES uploaded_files, pc, fi, pi, li, lines, data, all_data, master_df, loc

vars == <<uploaded_files, pc, fi, pi, li, lines, data, all_data, master_df, loc>>

(***************************************************************************)
(* Characters and str helpers                                              *)
(***************************************************************************)
Digits == {"0", "1", "2", "3", "4", "5", "6", "7", "8", "9"}

\* int() of one decimal digit
DigitVal(c) ==
    CASE c = "0" -> 0 [] c = "1" -> 1 [] c = "2" -> 2 [] c = "3" -> 3
      [] c = "4" -> 4 [] c = "5" -> 5 [] c = "6" -> 6 [] c = "7" -> 7
      [] c = "8" -> 8 [] c = "9" -> 9

\* the characters that regex \s and str.strip() treat as whitespace
\* (a line never holds "\n": the page text is split on it)
Whitespace == {" ", "\t"}

UpperCase == <<"A","B","C","D","E","F","G","H","I","J","K","L","M","N","O","P","Q","R","S","T","U","V","W","X","Y","Z","Æ","Ø","Å">>
LowerCase == <<"a","b","c","d","e","f","g","h","i","j","k","l","m","n","o","p","q","r","s","t","u","v","w","x","y","z","æ","ø","å">>

\* str.lower() of one character
LowerChar(c) ==
    IF \E i \in 1..Len(UpperCase) : UpperCase[i] = c
    THEN LowerCase[CHOOSE i \in 1..Len(UpperCase) : UpperCase[i] = c]
    ELSE c

\* str(desc).lower()
lower(s) == [i \in 1..Len(s) |-> LowerChar(s[i])]

\* Python's  k in d  for two strings
IsSubstring(k, d) ==
    \E i \in 1..(Len(d) - Len(k) + 1) : SubSeq(d, i, i + Len(k) - 1) = k

\* str.strip(): leading and trailing whitespace removed
RECURSIVE lstrip(_)
lstrip(s) ==
    IF s # <<>> /\ Head(s) \in Whitespace THEN lstrip(Tail(s)) ELSE s

RECURSIVE rstrip(_)
rstrip(s) ==
    IF s # <<>> /\ s[Len(s)] \in Whitespace
    THEN rstrip(SubSeq(s, 1, Len(s) - 1))
    ELSE s

strip(s) == rstrip(lstrip(s))

\* str.replace(old, new) for a one-character old and a new of length 0 or 1
RECURSIVE replace(_, _, _)
replace(s, old, new) ==
    IF s = <<>> THEN <<>>
    ELSE (IF Head(s) = old THEN new ELSE <<Head(s)>>) \o replace(Tail(s), old, new)

\* str.split('\n'): the pieces between the separators, always at least one
RECURSIVE split(_, _)
split(text, sep) ==
    IF \E i \in 1..Len(text) : text[i] = sep
    THEN LET i == CHOOSE j \in 1..Len(text) :
                    text[j] = sep /\ \A k \in 1..(j - 1) : text[k] # sep
         IN  <<SubSeq(text, 1, i - 1)>> \o split(SubSeq(text, i + 1, Len(text)), sep)
    ELSE <<text>>

\* int() of a string of decimal digits
RECURSIVE int(_)
int(s) ==
    IF s = <<>> THEN 0
    ELSE 10 * int(SubSeq(s, 1, Len(s) - 1)) + DigitVal(s[Len(s)])

(***************************************************************************)
(* get_category                                                            *)
(***************************************************************************)
\* the keyword table, in dict insertion order
mapping == <<
    [cat |-> "Subscriptions",
     keywords |-> <<<<"a","p","p","l","e",".","c","o","m">>, <<"a","d","o","b","e">>, <<"o","p","e","n","a","i">>, <<"c","h","a","t","g","p","t">>,
                    <<"m","i","c","r","o","s","o","f","t">>, <<"s","p","o","t","i","f","y">>, <<"m","u","s","l","i","m","i",".","c","o","m">>>>],
    [cat |-> "Health",
     keywords |-> <<<<"l","e","g","e","s","e","n","t","e","r">>, <<"a","p","o","t","e","k">>, <<"v","i","t","u","s">>, <<"f","o","k","u","s">>, <<"l","e","g","e">>>>],
    [cat |-> "Savings",
     keywords |-> <<<<"s","m","å","s","p","a","r","i","n","g">>>>],
    [cat |-> "Travel",
     keywords |-> <<<<"a","t","b">>, <<"v","y">>, <<"f","l","y">>, <<"t","a","x","i">>, <<"u","b","e","r">>, <<"r","u","t","e","n">>,
                    <<"f","e","r","i","e","r","e","i","s","e","r">>>>],
    [cat |-> "Food & Groceries",
     keywords |-> <<<<"k","i","w","i">>, <<"r","e","m","a">>, <<"c","o","o","p">>, <<"m","e","n","y">>, <<"m","c","d","o","n","a","l","d","s">>,
                    <<"f","o","o","d">>, <<"r","e","s","t","a","u","r","a","n","t">>>>],
    [cat |-> "Charity/Donations",
     keywords |-> <<<<"y","o","u","s","u","f">>, <<"l","a","u","n","c","h","g","o","o","d">>, <<"d","a","w","a","h">>, <<"r","e","l","i","e","f">>>>],
    [cat |-> "Income",
     keywords |-> <<<<"l","ø","n","n">>, <<"s","a","l","a","r","y">>, <<"f","r","a",":">>>> ],
    [cat |-> "Vipps/Transfers",
     keywords |-> <<<<"v","i","p","p","s">>, <<"o","v","e","r","f","ø","r","i","n","g">>, <<"t","i","l",":">>>> ] >>

\* any(k in d for k in keywords)
AnyKeyword(keywords, d) ==
    \E k \in 1..Len(keywords) : IsSubstring(keywords[k], d)

\* a loop that lets a later entry overwrite the result: the last entry with
\* a keyword wins
CategoryFromLast(d, i) ==
    LET hits == {e \in i..Len(mapping) : AnyKeyword(mapping[e].keywords, d)}
    IN  IF hits = {} THEN "General Shopping"
        ELSE mapping[CHOOSE e \in hits : \A f \in hits : f <= e].cat

\* the for loop over mapping.items(), from entry i on
RECURSIVE CategoryFrom(_, _)
CategoryFrom(d, i) ==
    IF i > Len(mapping) THEN "General Shopping"
    ELSE IF AnyKeyword(mapping[i].keywords, d) THEN mapping[i].cat
    ELSE CategoryFrom(d, i + 1)

\* the classifier without .lower(): keywords compared with the text as written
get_category_cased(desc) == CategoryFrom(desc, 1)

get_category(desc) == CategoryFrom(lower(desc), 1)

(***************************************************************************)
(* parse_pdf: one iteration of the loop over the lines of a page           *)
(***************************************************************************)
\* the substrings that make a line noise
NoiseMarkers == <<<<"4","2","1","2",".","0","2",".","6","5","8","2","7">>, <<"I","B","A","N">>, <<"S","a","l","d","o">>, <<"R","e","f","e","r","a","n","s","e">>, <<"S","i","d","e">>>>

\* line.startswith(x) in place of  x in line
IsNoisePrefix(line) ==
    \E x \in 1..Len(NoiseMarkers) :
        /\ Len(NoiseMarkers[x]) <= Len(line)
        /\ SubSeq(line, 1, Len(NoiseMarkers[x])) = NoiseMarkers[x]

\* any(x in line for x in [...])
IsNoise(line) ==
    \E x \in 1..Len(NoiseMarkers) : IsSubstring(NoiseMarkers[x], line)

\* the character class [\d\s.]
AmountClass == Digits \cup Whitespace \cup {"."}

\* \d+[\d\s.]* from position t: the positions right after which the pattern
\* can stop (the first character is a digit, the rest are of the class)
ClassEnds(line, t) ==
    {e \in t..Len(line) :
        /\ line[t] \in Digits
        /\ \A i \in (t + 1)..e : line[i] \in AmountClass}

\* (\d+[\d\s.]*,\d{2}) from position t: the last position of the match, 0 if
\* there is none.  The quantifiers are greedy: the longest prefix that lets
\* ,\d{2} follow wins.
TokenEnd(line, t) ==
    LET ends == {e \in ClassEnds(line, t) :
                    /\ e + 3 <= Len(line)
                    /\ line[e + 1] = ","
                    /\ line[e + 2] \in Digits
                    /\ line[e + 3] \in Digits}
    IN  IF ends = {} THEN 0
        ELSE (CHOOSE e \in ends : \A f \in ends : f <= e) + 3

\* \s+(\d+[\d\s.]*,\d{2}) from position p: the position where group 2 starts,
\* 0 if there is none (\s+ is greedy: the longest run of whitespace that lets
\* the amount follow wins)
TokenStartAfter(line, p) ==
    LET starts == {t \in (p + 1)..Len(line) :
                      /\ \A i \in p..(t - 1) : line[i] \in Whitespace
                      /\ TokenEnd(line, t) # 0}
    IN  IF starts = {} THEN 0
        ELSE CHOOSE t \in starts : \A u \in starts : u <= t

\* the pattern with a greedy group 1, (.*): the match with the longest
\* group 1, so the last amount of the line
search_amount_greedy(line) ==
    LET ps == {p \in 1..Len(line) : TokenStartAfter(line, p) # 0}
    IN  IF ps = {} THEN [found |-> FALSE, group1 |-> <<>>, group2 |-> <<>>]
        ELSE LET p == CHOOSE q \in ps : \A r \in ps : r <= q
                 t == TokenStartAfter(line, p)
             IN  [found  |-> TRUE,
                  group1 |-> SubSeq(line, 1, p - 1),
                  group2 |-> SubSeq(line, t, TokenEnd(line, t))]

\* re.search(r'(.*?)\s+(\d+[\d\s.]*,\d{2})', line): group 1 is lazy, so the
\* match is the one with the shortest group 1
search_amount(line) ==
    LET ps == {p \in 1..Len(line) : TokenStartAfter(line, p) # 0}
    IN  IF ps = {} THEN [found |-> FALSE, group1 |-> <<>>, group2 |-> <<>>]
        ELSE LET p == CHOOSE q \in ps : \A r \in ps : q <= r
                 t == TokenStartAfter(line, p)
             IN  [found  |-> TRUE,
                  group1 |-> SubSeq(line, 1, p - 1),
                  group2 |-> SubSeq(line, t, TokenEnd(line, t))]

\* re.search(r'(\d{4})', line): the first four consecutive digits
search_date(line) ==
    LET ds == {i \in 1..(Len(line) - 3) :
                  \A k \in i..(i + 3) : line[k] \in Digits}
    IN  IF ds = {} THEN [found |-> FALSE, group1 |-> <<>>]
        ELSE LET i == CHOOSE j \in ds : \A k \in ds : j <= k
             IN  [found |-> TRUE, group1 |-> SubSeq(line, i, i + 3)]

\* the chain without .replace('.', ''): thousands dots stay in
normalize_amount_keep_dots(token) ==
    replace(replace(token, " ", <<>>), ",", <<".">>)

\* match.group(2).replace(' ', '').replace('.', '').replace(',', '.')
normalize_amount(token) ==
    replace(replace(replace(token, " ", <<>>), ".", <<>>), ",", <<".">>)

\* a float of 10 000 000.00 or more, in oere: all such amounts are kept as
\* this one value (they compare alike with the range limits), so that the
\* arithmetic of the model stays within 32 bits
Saturated == 100 * 10000000

\* leading zeros of a digit string removed
RECURSIVE significant(_)
significant(s) ==
    IF s # <<>> /\ Head(s) = "0" THEN significant(Tail(s)) ELSE s

\* float(amt_raw), in oere; -1 stands for ValueError.  float() accepts
\* digits with at most one decimal point (surrounding whitespace ignored);
\* the regex always leaves two decimals.
float(amt_raw) ==
    LET s    == strip(amt_raw)
        dots == {i \in 1..Len(s) : s[i] = "."}
    IN  IF \/ \E i \in 1..Len(s) : s[i] \notin Digits \cup {"."}
           \/ Cardinality(dots) > 1
           \/ Cardinality(dots) = Len(s)
        THEN -1
        ELSE LET d     == IF dots = {} THEN Len(s) + 1
                          ELSE CHOOSE i \in dots : TRUE
                 whole == significant(SubSeq(s, 1, d - 1))
                 frac  == SubSeq(s, d + 1, Len(s))
             IN  IF Len(whole) > 7 THEN Saturated
                 ELSE 100 * int(whole)
                        + (IF Len(frac) = 0 THEN 0
                           ELSE IF Len(frac) = 1 THEN 10 * int(frac)
                           ELSE int(SubSeq(frac, 1, 2)))

\* the range with the ceiling included: 1.0 <= amt <= 20000.0
in_range_inclusive(amt) == 100 <= amt /\ amt <= 2000000

\* 1.0 <= amt < 20000.0
in_range(amt) == 100 <= amt /\ amt < 2000000

\* datetime(2025, month_int, 1) raises ValueError outside 1..12
valid_month(month_int) == 1 <= month_int /\ month_int <= 12

\* datetime(2025, month_int, 1).strftime('%B')
month_names == <<"January", "February", "March", "April", "May", "June",
                 "July", "August", "September", "October", "November",
                 "December">>

\* the prefix pattern with optional whitespace, ^\d{4}\s*
clean_description_bare_prefix(desc_raw) ==
    IF Len(desc_raw) >= 4 /\ \A i \in 1..4 : desc_raw[i] \in Digits
    THEN lstrip(SubSeq(desc_raw, 5, Len(desc_raw)))
    ELSE desc_raw

\* re.sub(r'^\d{4}\s+', '', desc_raw)
clean_description(desc_raw) ==
    IF /\ Len(desc_raw) >= 5
       /\ \A i \in 1..4 : desc_raw[i] \in Digits
       /\ desc_raw[5] \in Whitespace
    THEN lstrip(SubSeq(desc_raw, 5, Len(desc_raw)))
    ELSE desc_raw

\* the locals of a loop iteration before anything is assigned
NoLocals == [line |-> <<>>, skipped |-> FALSE, found |-> FALSE,
             desc_raw |-> <<>>, token |-> <<>>, amt_raw |-> <<>>,
             date_str |-> <<>>, amt |-> -1, raised |-> FALSE, rows |-> <<>>]

\* the body of  for line in lines:  the locals it leaves and the rows it
\* appends to data (none or one)
parse_line(line) ==
    IF IsNoise(line) THEN [NoLocals EXCEPT !.line = line, !.skipped = TRUE]
    ELSE
      LET match      == search_amount(line)
          date_match == search_date(line)
      IN  IF ~match.found THEN [NoLocals EXCEPT !.line = line]
          ELSE
            LET desc_raw == strip(match.group1)
                amt_raw  == normalize_amount(match.group2)
                date_str == IF date_match.found THEN date_match.group1
                            ELSE <<"0","1","0","1">>
                amt      == float(amt_raw)
                seen     == [NoLocals EXCEPT !.line = line, !.found = TRUE,
                                !.desc_raw = desc_raw, !.token = match.group2,
                                !.amt_raw = amt_raw, !.date_str = date_str,
                                !.amt = amt]
            IN  IF amt = -1 THEN [seen EXCEPT !.raised = TRUE]
                ELSE IF ~in_range(amt) THEN seen
                ELSE
                  LET month_int == int(SubSeq(date_str, 3, 4))
                  IN  IF ~valid_month(month_int)
                      THEN [seen EXCEPT !.raised = TRUE]
                      ELSE [seen EXCEPT !.rows =
                              <<[Month       |-> month_names[month_int],
                                 Date_Code   |-> date_str,
                                 Description |-> clean_description(desc_raw),
                                 Amount      |-> amt,
                                 Category    |-> get_category(desc_raw)]>>]

(***************************************************************************)
(* The script body: merge of the per-file tables                           *)
(***************************************************************************)
\* pd.concat(all_data)
RECURSIVE concat(_)
concat(dfs) ==
    IF dfs = <<>> THEN <<>> ELSE Head(dfs) \o concat(Tail(dfs))

\* drop_duplicates(keep='last'): the last occurrence stays, earlier ones go
RECURSIVE drop_duplicates_keep_last(_)
drop_duplicates_keep_last(df) ==
    IF df = <<>> THEN <<>>
    ELSE LET kept == drop_duplicates_keep_last(Tail(df))
         IN  IF \E i \in 1..Len(kept) : kept[i] = Head(df) THEN kept
             ELSE <<Head(df)>> \o kept

\* DataFrame.drop_duplicates(): a row equal to an earlier one in every column
\* is dropped, the first occurrence stays where it is
RECURSIVE drop_duplicates(_)
drop_duplicates(df) ==
    IF df = <<>> THEN <<>>
    ELSE LET kept == drop_duplicates(SubSeq(df, 1, Len(df) - 1))
             row  == df[Len(df)]
         IN  IF \E i \in 1..Len(kept) : kept[i] = row THEN kept
             ELSE Append(kept, row)

(***************************************************************************)
(* Inputs: the uploaded files                                              *)
(***************************************************************************)
\* the most fragments joined into a generated line
MaxFragments == 3

\* the most files in an uploaded batch
MaxFiles == 2

\* pieces of statement lines: separators, descriptions, date codes, amounts
\* and boilerplate words
Fragments == <<<<" ">>, <<"\t">>, <<"1">>, <<"K","I","W","I"," ">>, <<"0","1","1","2"," ">>, <<"3","1","1","3"," ">>,
               <<"3","4","9",",","0","0">>, <<"1",".","5","2","9",",","0","0">>, <<"2","0","0","0","0",",","0","0">>, <<"S","a","l","d","o"," ">>>>

\* every line made of at most n fragments
RECURSIVE FragmentLines(_)
FragmentLines(n) ==
    IF n = 0 THEN {<<>>}
    ELSE LET shorter == FragmentLines(n - 1)
         IN  shorter \cup
             {l \o Fragments[i] : l \in shorter, i \in 1..Len(Fragments)}

\* statement lines written out in full
ExampleLines == {
    <<"4","2","1","2",".","0","2",".","6","5","8","2","7"," ","s","o","m","e"," ","h","e","a","d","e","r">>,
    <<"0","1","1","2"," ","K","I","W","I"," ","M","A","T"," ","3","4","9",",","0","0">>,
    <<"1","5","1","2"," ","N","E","T","F","L","I","X",".","C","O","M"," ","1","2","9",",","0","0">>,
    <<"S","a","l","d","o"," ","1","8","2","0","4",",","5","5">>,
    <<"0","1","1","2"," ","K","I","W","I"," ","3","4","9",",","0","0"," ","S","a","l","d","o"," ","1","8",".","2","0","4",",","5","5">>,
    <<"0","1","1","2"," ","K","I","W","I"," ","3","4","9",",","0","0"," ","1","8",".","2","0","4",",","5","5">>,
    <<"3","4","9",",","0","0"," ","K","I","W","I"," ","1","0","0",",","0","0">>,
    <<"K","I","W","I"," ","1","0","0",",","0","0">>,
    <<"K","I","W","I"," ","1","5","2","9",",","0","0">>,
    <<"3","1","1","3"," ","K","I","W","I"," ","1","0","0",",","0","0">>,
    <<"0","1","1","2"," ","3","4","9",",","0","0">>,
    <<"K","I","W","I"," ","1"," ","5","2","9",",","0","0">>,
    <<"K","I","W","I"," ","1","\t","5","2","9",",","0","0">>,
    <<"0","1","1","2"," ","K","I","W","I"," ","2","5","5","0","0",",","0","0">>,
    <<"0","1","1","2"," ","K","I","W","I"," ","1","9","9","9","9",",","9","9">>,
    <<"K","I","W","I"," ","1",",","0","0">>,
    <<"K","I","W","I"," ","0",",","9","9">>,
    <<"K","I","W","I"," ","0",",","5","0">>,
    <<"0","1","1","2"," ","K","I","W","I"," ","2","0","0","0","0",",","0","0">>,
    <<"D","a","t","o"," ","K","I","W","I"," ","3","4","9",",","0","0">>,
    <<"D","a","t","o"," ","0","1","1","2"," ","3","4","9",",","0","0">>,
    <<"V","y"," ","K","I","W","I"," ","1","0","0",",","0","0">>,
    <<"K","I","W","I"," ","1",".","5","2","9",",","0","0">>,
    <<" ","3","4","9",",","0","0">>,
    <<"I","B","A","N"," ","K","I","W","I"," ","3","4","9",",","0","0">>,
    <<"R","e","f","e","r","a","n","s","e"," ","3","4","9",",","0","0">>,
    <<"S","i","d","e"," ","2"," ","3","4","9",",","0","0">>,
    <<"4","2","1","2",".","0","2",".","6","5","8","2","7"," ","3","4","9",",","0","0">>,
    <<"T","i","l",":"," ","V","y"," ","5","9",",","0","0">>,
    <<"A","P","P","L","E",".","C","O","M","/","B","I","L","L"," ","R","e","l","i","e","f"," ","9","9",",","0","0">>,
    <<"D","a","t","o"," ","B","e","s","k","r","i","v","e","l","s","e"," ","B","e","l","ø","p">>,
    <<"L","ø","n","n"," ","F","r","a",":"," ","K","o","m","m","u","n","e"," ","9","5","0","0",",","0","0">> }

InputLines == ExampleLines \cup FragmentLines(MaxFragments)

\* the text of a page: its lines joined by newlines
RECURSIVE JoinLines(_)
JoinLines(ls) ==
    IF Len(ls) = 1 THEN ls[1]
    ELSE ls[1] \o <<"\n">> \o JoinLines(Tail(ls))

\* a page whose extract_text() gives the text of these lines
Page(ls) == [is_none |-> FALSE, text |-> JoinLines(ls)]

\* a page whose extract_text() gives None
NonePage == [is_none |-> TRUE, text |-> <<>>]

\* a file PdfReader can open, with these pages
PdfFile(pages) == [readable |-> TRUE, pages |-> pages]

\* a file PdfReader cannot open
CorruptFile == [readable |-> FALSE, pages |-> <<>>]

EndToEndFile ==
    PdfFile(<<Page(<<<<"4","2","1","2",".","0","2",".","6","5","8","2","7"," ","s","o","m","e"," ","h","e","a","d","e","r">>, <<"0","1","1","2"," ","K","I","W","I"," ","M","A","T"," ","3","4","9",",","0","0">>,
                     <<"1","5","1","2"," ","N","E","T","F","L","I","X",".","C","O","M"," ","1","2","9",",","0","0">>, <<"S","a","l","d","o"," ","1","8","2","0","4",",","5","5">>>>)>>)

KiwiFile == PdfFile(<<Page(<<<<"K","I","W","I"," ","1","0","0",",","0","0">>>>)>>)

TwoPageFile ==
    PdfFile(<<Page(<<<<"K","I","W","I"," ","1","0","0",",","0","0">>, <<"V","y"," ","5","0",",","0","0">>, <<"K","I","W","I"," ","1","0","0",",","0","0">>>>),
              Page(<<<<>>, <<"0","1","1","2"," ","K","I","W","I"," ","M","A","T"," ","3","4","9",",","0","0">>>>)>>)

NoneTextFile == PdfFile(<<Page(<<<<"V","y"," ","5","0",",","0","0">>>>), NonePage>>)

BoilerplateFile == PdfFile(<<Page(<<<<"S","a","l","d","o"," ","1","8","2","0","4",",","5","5">>>>), Page(<<<<>>>>)>>)

FilePool == <<CorruptFile, EndToEndFile, KiwiFile, TwoPageFile, NoneTextFile,
              BoilerplateFile>>

\* every batch of at most n files of the pool
RECURSIVE Batches(_)
Batches(n) ==
    IF n = 0 THEN {<<>>}
    ELSE LET shorter == Batches(n - 1)
         IN  shorter \cup
             {Append(b, FilePool[i]) : b \in shorter, i \in 1..Len(FilePool)}

(***************************************************************************)
(* The state machine: one run of the script on the uploaded files          *)
(***************************************************************************)
Init ==
    /\ uploaded_files \in
          Batches(MaxFiles) \cup {<<PdfFile(<<Page(<<l>>)>>)>> : l \in InputLines}
    /\ pc = "script"
    /\ fi = 1
    /\ pi = 1
    /\ li = 1
    /\ lines = <<>>
    /\ data = <<>>
    /\ all_data = <<>>
    /\ master_df = <<>>
    /\ loc = NoLocals

\* if uploaded_files: ... else: st.info("Welcome!")
NoUpload ==
    /\ pc = "script"
    /\ uploaded_files = <<>>
    /\ pc' = "welcome"
    /\ UNCHANGED <<uploaded_files, fi, pi, li, lines, data, all_data, master_df, loc>>

\* all_data = []; for f in uploaded_files:
StartBatch ==
    /\ pc = "script"
    /\ uploaded_files # <<>>
    /\ all_data' = <<>>
    /\ fi' = 1
    /\ pc' = "open"
    /\ UNCHANGED <<uploaded_files, pi, li, lines, data, master_df, loc>>

\* parse_pdf(f): reader = PdfReader(file); data = []
OpenPdf ==
    /\ pc = "open"
    /\ uploaded_files[fi].readable
    /\ data' = <<>>
    /\ pi' = 1
    /\ pc' = "page"
    /\ UNCHANGED <<uploaded_files, fi, li, lines, all_data, master_df, loc>>

\* PdfReader(file) raises on a file it cannot read; nothing catches it
OpenPdfRaises ==
    /\ pc = "open"
    /\ ~uploaded_files[fi].readable
    /\ pc' = "exception"
    /\ UNCHANGED <<uploaded_files, fi, pi, li, lines, data, all_data, master_df, loc>>

\* text = page.extract_text(); lines = text.split('\n')
ExtractText ==
    /\ pc = "page"
    /\ pi <= Len(uploaded_files[fi].pages)
    /\ ~uploaded_files[fi].pages[pi].is_none
    /\ lines' = split(uploaded_files[fi].pages[pi].text, "\n")
    /\ li' = 1
    /\ pc' = "line"
    /\ UNCHANGED <<uploaded_files, fi, pi, data, all_data, master_df, loc>>

\* text is None: text.split raises AttributeError; nothing catches it
ExtractTextNone ==
    /\ pc = "page"
    /\ pi <= Len(uploaded_files[fi].pages)
    /\ uploaded_files[fi].pages[pi].is_none
    /\ pc' = "exception"
    /\ UNCHANGED <<uploaded_files, fi, pi, li, lines, data, all_data, master_df, loc>>

\* one iteration of  for line in lines
ParseLine ==
    /\ pc = "line"
    /\ li <= Len(lines)
    /\ loc' = parse_line(lines[li])
    /\ data' = data \o loc'.rows
    /\ li' = li + 1
    /\ UNCHANGED <<uploaded_files, pc, fi, pi, lines, all_data, master_df>>

\* the lines of the page are exhausted: next page
NextPage ==
    /\ pc = "line"
    /\ li > Len(lines)
    /\ pi' = pi + 1
    /\ pc' = "page"
    /\ UNCHANGED <<uploaded_files, fi, li, lines, data, all_data, master_df, loc>>

\* return pd.DataFrame(data); if not df_temp.empty: all_data.append(df_temp)
ReturnFrame ==
    /\ pc = "page"
    /\ pi > Len(uploaded_files[fi].pages)
    /\ all_data' = IF data # <<>> THEN Append(all_data, data) ELSE all_data
    /\ fi' = fi + 1
    /\ pc' = IF fi + 1 > Len(uploaded_files) THEN "merge" ELSE "open"
    /\ UNCHANGED <<uploaded_files, pi, li, lines, data, master_df, loc>>

\* master_df = pd.concat(all_data).drop_duplicates(), then the dashboard
Merge ==
    /\ pc = "merge"
    /\ all_data # <<>>
    /\ master_df' = drop_duplicates(concat(all_data))
    /\ pc' = "rendered"
    /\ UNCHANGED <<uploaded_files, fi, pi, li, lines, data, all_data, loc>>

\* st.error("No transaction data found. ...")
NoData ==
    /\ pc = "merge"
    /\ all_data = <<>>
    /\ pc' = "no_data"
    /\ UNCHANGED <<uploaded_files, fi, pi, li, lines, data, all_data, master_df, loc>>

Next ==
    \/ NoUpload
    \/ StartBatch
    \/ OpenPdf
    \/ OpenPdfRaises
    \/ ExtractText
    \/ ExtractTextNone
    \/ ParseLine
    \/ NextPage
    \/ ReturnFrame
    \/ Merge
    \/ NoData

Spec == Init /\ [][Next]_vars

(***************************************************************************)
(* Properties.  loc holds the locals of the latest iteration of the line   *)
(* loop: the line, the amount token found on it, the parsed amount and the *)
(* rows the iteration appended.                                            *)
(***************************************************************************)
TypeOK ==
    /\ pc \in {"script", "open", "page", "line", "merge", "welcome",
               "rendered", "no_data", "exception"}
    /\ Len(loc.rows) <= 1

\* the rows of every table the run holds
AllRows ==
    {data[i] : i \in 1..Len(data)}
      \cup {master_df[i] : i \in 1..Len(master_df)}
      \cup UNION { {all_data[f][i] : i \in 1..Len(all_data[f])} :
                      f \in 1..Len(all_data)}
      \cup {loc.rows[i] : i \in 1..Len(loc.rows)}

\* the five boilerplate substrings
ListedMarkers ==
    { <<"4","2","1","2",".","0","2",".","6","5","8","2","7">>, <<"I","B","A","N">>, <<"S","a","l","d","o">>, <<"R","e","f","e","r","a","n","s","e">>, <<"S","i","d","e">> }

\* a line holding one of the five boilerplate substrings
HasListedMarker(line) == \E m \in ListedMarkers : IsSubstring(m, line)

\* line[t..e] is shaped as a currency token: a digit, then digits, whitespace
\* and dots, then a comma and exactly two digits
Shaped(line, t, e) ==
    /\ 1 <= t /\ t + 3 <= e /\ e <= Len(line)
    /\ line[t] \in Digits
    /\ \A i \in (t + 1)..(e - 3) : line[i] \in Digits \cup Whitespace \cup {"."}
    /\ line[e - 2] = ","
    /\ line[e - 1] \in Digits
    /\ line[e] \in Digits

\* where a currency-shaped token starts on the line
TokenStarts(line) ==
    {t \in 1..Len(line) : \E e \in t..Len(line) : Shaped(line, t, e)}

\* where a currency-shaped token ends on the line: one end per token
TokenEnds(line) ==
    {e \in 1..Len(line) : \E t \in 1..e : Shaped(line, t, e)}

\* the currency-shaped token that starts at t
TokenAt(line, t) ==
    SubSeq(line, t, CHOOSE e \in t..Len(line) : Shaped(line, t, e))

Least(S) == CHOOSE x \in S : \A y \in S : x <= y

\* the amount a token stands for, in oere: its digits read as one number,
\* spaces and dots passed over, the comma before the last two digits
RECURSIVE OereOf(_, _)
OereOf(tok, acc) ==
    IF tok = <<>> THEN acc
    ELSE IF Head(tok) \in Digits
    THEN OereOf(Tail(tok), IF acc >= Saturated \div 10 THEN Saturated
                           ELSE 10 * acc + DigitVal(Head(tok)))
    ELSE OereOf(Tail(tok), acc)

----------------------------------------------------------------------------
\* C1 as stated: a line holding any of the five boilerplate substrings or the
\* column header token "Dato" yields no Transaction, whatever currency-shaped
\* tokens it also holds.
NoiseRejectionWithDato ==
    (HasListedMarker(loc.line) \/ IsSubstring(<<"D","a","t","o">>, loc.line))
        => loc.rows = <<>>

\* C1 amended: a line holding any of the five substrings "4212.02.65827",
\* "IBAN", "Saldo", "Referanse", "Side" is skipped before any amount is looked
\* for and yields no Transaction; "Dato" is not among the markers.
NoiseRejection ==
    HasListedMarker(loc.line)
        => loc.skipped /\ ~loc.found /\ loc.rows = <<>>

\* C1 witness: a line with "IBAN" and a currency token has been skipped
NoiseRejectionWitness ==
    /\ IsSubstring(<<"I","B","A","N">>, loc.line)
    /\ IsSubstring(<<" ","3","4","9",",","0","0">>, loc.line)
    /\ loc.skipped
    /\ data = <<>>

----------------------------------------------------------------------------
TieBreakLine == <<"0","1","1","2"," ","K","I","W","I"," ","3","4","9",",","0","0"," ","S","a","l","d","o"," ","1","8",".","2","0","4",",","5","5">>

\* C2 as stated: on a line with two or more currency-shaped tokens the amount
\* extracted is the value of the leftmost token, and the line
\* "0112 KIWI 349,00 Saldo 18.204,55" yields a Transaction of 349.00.
LeftmostToken ==
    /\ Cardinality(TokenEnds(loc.line)) >= 2
          => /\ loc.found
             /\ loc.amt = OereOf(TokenAt(loc.line, Least(TokenStarts(loc.line))), 0)
    /\ loc.line = TieBreakLine
          => Len(loc.rows) = 1 /\ loc.rows[1].Amount = 34900

\* the starts of the currency-shaped tokens that directly follow whitespace
SpacedStarts(line) ==
    {t \in TokenStarts(line) : t > 1 /\ line[t - 1] \in Whitespace}

\* C2 amended: on a line without a noise marker the amount token extracted is
\* the leftmost currency-shaped token that directly follows whitespace, never
\* a later one, and a line with no such token gives no match;
\* "0112 KIWI 349,00 Saldo 18.204,55" holds "Saldo" and yields no Transaction,
\* while "0112 KIWI 349,00 18.204,55" yields a Transaction of 349.00.
LeftmostSpacedToken ==
    /\ ~HasListedMarker(loc.line)
          => IF SpacedStarts(loc.line) = {} THEN ~loc.found
             ELSE /\ loc.found
                  /\ loc.token = TokenAt(loc.line, Least(SpacedStarts(loc.line)))
                  /\ loc.amt \in {-1, OereOf(loc.token, 0)}
    /\ loc.line = TieBreakLine => loc.rows = <<>>
    /\ loc.line = <<"0","1","1","2"," ","K","I","W","I"," ","3","4","9",",","0","0"," ","1","8",".","2","0","4",",","5","5">>
          => Len(loc.rows) = 1 /\ loc.rows[1].Amount = 34900

\* C2 witness: the line with two spaced tokens has given the left one
LeftmostSpacedTokenWitness ==
    /\ loc.line = <<"0","1","1","2"," ","K","I","W","I"," ","3","4","9",",","0","0"," ","1","8",".","2","0","4",",","5","5">>
    /\ Cardinality(SpacedStarts(loc.line) \cap {11, 18}) = 2
    /\ loc.token = <<"3","4","9",",","0","0">>
    /\ Len(data) = 1

----------------------------------------------------------------------------
\* C3: every Transaction has an amount a with 1.00 <= a < 20000.00, and a
\* line whose parsed amount is outside that range yields no Transaction.
BoundsFiltering ==
    /\ \A row \in AllRows : 100 <= row.Amount /\ row.Amount < 2000000
    /\ (loc.found /\ loc.amt # -1 /\ ~(100 <= loc.amt /\ loc.amt < 2000000))
          => loc.rows = <<>>
    /\ \A i \in 1..Len(loc.rows) : loc.rows[i].Amount = loc.amt

\* C3 witness: a line with a valid date code and the amount 20000,00 has been
\* parsed and dropped
BoundsFilteringWitness ==
    /\ loc.line = <<"0","1","1","2"," ","K","I","W","I"," ","2","0","0","0","0",",","0","0">>
    /\ loc.amt = 2000000
    /\ ~loc.raised
    /\ loc.rows = <<>>

----------------------------------------------------------------------------
\* C4: the amount of a matched token is the token with spaces and dots
\* deleted and the comma read as the decimal point ("1.529,00" and
\* "1 529,00" give 1529.00, "349,00" gives 349.00); a token that does not
\* convert (it holds other whitespace) is discarded by the except clause.
AmountNormalization ==
    loc.found =>
        /\ Shaped(loc.token, 1, Len(loc.token))
        /\ IF \A i \in 1..Len(loc.token) : loc.token[i] \in Digits \cup {" ", ".", ","}
           THEN loc.amt = OereOf(loc.token, 0)
           ELSE loc.amt = -1 /\ loc.raised /\ loc.rows = <<>>
        /\ loc.token = <<"1",".","5","2","9",",","0","0">> => loc.amt = 152900
        /\ loc.token = <<"1"," ","5","2","9",",","0","0">> => loc.amt = 152900
        /\ loc.token = <<"3","4","9",",","0","0">> => loc.amt = 34900

\* C4 witness: a token with a thousands dot has been converted
AmountNormalizationWitness ==
    /\ loc.token = <<"1",".","5","2","9",",","0","0">>
    /\ loc.amt_raw = <<"1","5","2","9",".","0","0">>
    /\ loc.amt = 152900

----------------------------------------------------------------------------
\* the categories in table order
CategoryOrder == <<"Subscriptions", "Health", "Savings", "Travel",
                   "Food & Groceries", "Charity/Donations", "Income",
                   "Vipps/Transfers">>

\* the places in the table order whose entry has a keyword inside the
\* lower-cased description
Hits(desc) ==
    {n \in 1..Len(CategoryOrder) :
        \E e \in 1..Len(mapping) :
            /\ mapping[e].cat = CategoryOrder[n]
            /\ \E k \in 1..Len(mapping[e].keywords) :
                  IsSubstring(mapping[e].keywords[k], lower(desc))}

\* the label the ordered table gives a description
FirstHit(desc) ==
    IF Hits(desc) = {} THEN "General Shopping"
    ELSE CategoryOrder[Least(Hits(desc))]

\* C5: the category of a Transaction is that of the first table entry, in
\* the order Subscriptions, Health, Savings, Travel, Food & Groceries,
\* Charity/Donations, Income, Vipps/Transfers, with a keyword inside the
\* lower-cased description, and the fallback label when no entry has one.
ClassifierOrdering ==
    \A i \in 1..Len(loc.rows) :
        /\ loc.rows[i].Category = FirstHit(loc.desc_raw)
        /\ loc.rows[i].Category = FirstHit(loc.rows[i].Description)

\* C5 witness: a description with keywords of two categories was classified
ClassifierOrderingWitness ==
    /\ Len(loc.rows) = 1
    /\ Cardinality(Hits(loc.desc_raw)) >= 2
    /\ loc.rows[1].Category = "Travel"

----------------------------------------------------------------------------
\* description, amount and category of the rows of a table
Projection(df) ==
    [i \in 1..Len(df) |->
        <<df[i].Description, df[i].Amount, df[i].Category>>]

\* C6 as stated: the four lines of the end-to-end scenario yield exactly
\* {KIWI MAT, 349.00, Food & Groceries} and {NETFLIX.COM, 129.00,
\* Subscriptions}.
EndToEndSubscriptions ==
    (uploaded_files = <<EndToEndFile>> /\ pc \in {"rendered", "no_data"})
        => /\ pc = "rendered"
           /\ Projection(master_df) =
                 << <<<<"K","I","W","I"," ","M","A","T">>, 34900, "Food & Groceries">>,
                    <<<<"N","E","T","F","L","I","X",".","C","O","M">>, 12900, "Subscriptions">> >>

\* C6 amended: the four lines yield exactly {KIWI MAT, 349.00, Food &
\* Groceries} and {NETFLIX.COM, 129.00, General Shopping}: the keyword table
\* has no entry for Netflix; the header and balance lines yield nothing.
EndToEndScenario ==
    (uploaded_files = <<EndToEndFile>> /\ pc \in {"rendered", "no_data"})
        => /\ pc = "rendered"
           /\ Projection(master_df) =
                 << <<<<"K","I","W","I"," ","M","A","T">>, 34900, "Food & Groceries">>,
                    <<<<"N","E","T","F","L","I","X",".","C","O","M">>, 12900, "General Shopping">> >>

\* C6 witness: the scenario has run to the dashboard
EndToEndScenarioWitness ==
    /\ uploaded_files = <<EndToEndFile>>
    /\ pc = "rendered"
    /\ Len(master_df) = 2

----------------------------------------------------------------------------
\* the rows of c up to place n that equal no earlier row, in order
RECURSIVE FirstOccurrences(_, _)
FirstOccurrences(c, n) ==
    IF n = 0 THEN <<>>
    ELSE IF \E j \in 1..(n - 1) : c[j] = c[n]
    THEN FirstOccurrences(c, n - 1)
    ELSE Append(FirstOccurrences(c, n - 1), c[n])

\* the rows of the per-file tables, file after file
RowsInFileOrder ==
    LET sizes == [f \in 1..Len(all_data) |-> Len(all_data[f])]
        total[f \in 0..Len(all_data)] ==
            IF f = 0 THEN 0 ELSE total[f - 1] + sizes[f]
    IN  [n \in 1..total[Len(all_data)] |->
            LET f == Least({g \in 1..Len(all_data) : n <= total[g]})
            IN  all_data[f][n - total[f - 1]]]

\* C7: the working set is the per-file tables joined in file order with
\* every row that equals an earlier row in all fields removed and the first
\* occurrence kept in place: no two rows of it are equal, and two files that
\* each hold "KIWI 100,00" give that record once.
MergeDeduplication ==
    pc = "rendered" =>
        /\ master_df = FirstOccurrences(RowsInFileOrder, Len(RowsInFileOrder))
        /\ \A i, j \in 1..Len(master_df) : i # j => master_df[i] # master_df[j]
        /\ uploaded_files = <<KiwiFile, KiwiFile>>
              => master_df = <<[Month |-> "January", Date_Code |-> <<"0","1","0","1">>,
                                Description |-> <<"K","I","W","I">>, Amount |-> 10000,
                                Category |-> "Food & Groceries"]>>

\* C7 witness: two files with the same line were merged into one record
MergeDeduplicationWitness ==
    /\ pc = "rendered"
    /\ uploaded_files = <<KiwiFile, KiwiFile>>
    /\ Len(all_data) = 2
    /\ Len(master_df) = 1

----------------------------------------------------------------------------
\* a file whose text extraction succeeds on every page
Extractable(f) ==
    f.readable /\ \A p \in 1..Len(f.pages) : ~f.pages[p].is_none

\* C8 as stated: in a batch of several files, when text extraction fails for
\* one file, no exception escapes and the remaining files are still parsed.
FailureIsolation ==
    (/\ Len(uploaded_files) >= 2
     /\ \E f \in 1..Len(uploaded_files) : Extractable(uploaded_files[f]))
        => /\ pc # "exception"
           /\ pc \in {"rendered", "no_data"} => fi > Len(uploaded_files)

----------------------------------------------------------------------------
----------------------------------------------------------------------------
\* C10 as stated: a line with no noise marker whose extracted amount is
\* within the bounds yields exactly one Transaction, with the 4-digit token
\* of the line or "0101" as Date_Code; the date derivation drops no line.
NoLossToDate ==
    (~HasListedMarker(loc.line) /\ loc.found
        /\ 100 <= loc.amt /\ loc.amt < 2000000)
        => /\ Len(loc.rows) = 1
           /\ loc.rows[1].Date_Code = loc.date_str
====
